---- MODULE Spec2Model ----
(***************************************************************************)
(* Model of the pitcher ELO ranking application: the rating arithmetic of  *)
(* elo_system.py, the read-modify-write cycle of record_matchup against    *)
(* the "elo_ratings" table, get_leaderboard, the matchup selection of      *)
(* app.py and its presentation flow (display_award_tab, handle_vote).      *)
(*                                                                         *)
(* Numbers.  The program computes ratings in binary floating point, where  *)
(* every operation rounds its result to the nearest representable value.   *)
(* The model keeps that behaviour at a coarser grain: a rating and an      *)
(* expected score are integers counting units of 1/Unit, and a division   *)
(* or exponentiation rounds its result to the nearest unit.  Additions,    *)
(* subtractions and the product with K_FACTOR are exact at this grain.     *)
(***************************************************************************)
EXTENDS Integers, Sequences, FiniteSets

VARIABLES
    \* ---- update_ratings called on its own (SpecElo)
    winner_rating,      \* argument of update_ratings
    loser_rating,       \* argument of update_ratings
    expected,           \* <<winner_expected, loser_expected>> or <<>>
    new_ratings,        \* <<new_winner_rating, new_loser_rating>> or <<>>
    elo_pc,             \* "ready" | "returned"
    \* ---- the "elo_ratings" table and the sessions calling record_matchup (Spec)
    elo_ratings,        \* the table: a set of rows, unique per (award_category, player_id)
    pc,                 \* per session: "idle" | "loaded" | "wrote_winner" | "returned"
    call,               \* per session: the arguments of its record_matchup call
    ratings_df,         \* per session: the DataFrame load_ratings returned
    locals,             \* per session: the values record_matchup computed from it
    st_error,           \* per session: the st.error messages of its call
    ret,                \* per session: what record_matchup returned, <<>> before
    calls,              \* record_matchup calls started
    failures,           \* store requests that have failed
    \* ---- history of the store machine (read by the properties only)
    load_failed,        \* per session: the select of its call raised
    upserts,            \* per session: outcome of each upsert of its call, in order
    rows_at_call,       \* per session: the category's rows in the table when it read
    isolated,           \* per session: no other session wrote since its call began
    recorded,           \* per (category, player): record_matchup calls returned
    last_writer,        \* per (category, player): session whose upsert is stored
    \* ---- select_random_matchup called on its own (SpecSelect)
    pool,               \* df: the sequence of the candidates' xMLBAMID
    attempt,            \* draws of the retry loop that were rejected
    sample,             \* positions <<i, j>> of the last draw, <<>> before
    players,            \* the returned <<player1, player2>>, <<>> for (None, None)
    sel_pc,             \* "running" | "returned" | "returned_none" | "raised"
    \* ---- get_leaderboard after votes recorded one at a time (SpecSeq)
    board_arg,          \* argument award_category of get_leaderboard
    leaderboard,        \* the sequence of rows get_leaderboard returned
    board_error,        \* the st.error messages of the get_leaderboard call
    board_pc,           \* "ready" | "returned"
    \* ---- one browser session running the script of app.py (SpecApp)
    pitcher_data,       \* per category: the frame get_pitcher_data has cached
    session_state,      \* st.session_state: the keys present and their values
    tab,                \* award_category of the display_award_tab call in progress
    app_pc,             \* "idle" | "select" | "show" | "show_new" | "returning"
    st_warning          \* the st.warning messages of the call in progress

eloVars == <<winner_rating, loser_rating, expected, new_ratings, elo_pc>>
storeVars == <<elo_ratings, pc, call, ratings_df, locals, st_error, ret, calls, failures>>
histVars == <<load_failed, upserts, rows_at_call, isolated, recorded, last_writer>>

selVars == <<pool, attempt, sample, players, sel_pc>>
boardVars == <<board_arg, leaderboard, board_error, board_pc>>
appVars == <<pitcher_data, session_state, tab, app_pc, st_warning>>

vars == <<eloVars, storeVars, histVars, selVars, boardVars, appVars>>

(***************************************************************************)
(* Bounds of the model.                                                    *)
(***************************************************************************)
\* update_ratings is applied to the ratings DEFAULT_RATING * Unit + i * GridStep,
\* i in -MaxGrid .. MaxGrid (GridStep is a little over 100 rating points).
MaxGrid == 8
GridStep == 409637
\* record_matchup calls started, and store requests that fail, in one behaviour.
MaxCalls == 2
MaxFailures == 1
\* Longest candidate pool handed to select_random_matchup.
MaxPool == 3
\* record_matchup calls made one after the other (SpecSeq).
MaxSeq == 3
\* Longest frame get_pitcher_data hands to display_award_tab, and votes handled
\* in one behaviour (SpecApp).
MaxData == 2
MaxVotes == 1

(***************************************************************************)
(* Program constants.                                                      *)
(***************************************************************************)
DEFAULT_RATING == 1500
K_FACTOR == 32
max_attempts == 10

(***************************************************************************)
(* Arithmetic.                                                             *)
(***************************************************************************)
\* Units per rating point, and per 1.0 of an expected score.
Unit == 2^12

\* a / b rounded to the nearest integer (b > 0).
RoundDiv(a, b) == (2 * a + b) \div (2 * b)

\* Root10[i] is 10^(1/2^i) in units, i = 1 .. 12.
Root10 == <<12953, 7284, 5462, 4730, 4402, 4246, 4170, 4133, 4114, 4105, 4101, 4098>>

\* Bit i (1 = most significant) of the 12-bit fraction f.
FracBit(f, i) == (f \div 2^(12 - i)) % 2

\* 10^(f / Unit) in units for a fraction 0 <= f < Unit: the product of the roots
\* selected by the bits of f, rounded after every multiplication.
RECURSIVE PowFrac(_, _, _)
PowFrac(f, i, acc) ==
    IF i > 12 THEN acc
    ELSE PowFrac(f, i + 1,
                 IF FracBit(f, i) = 1 THEN RoundDiv(acc * Root10[i], Unit) ELSE acc)

\* 10 ** x for an exponent x in units, result in units.
Pow10(x) ==
    LET n == x \div Unit
        m == PowFrac(x % Unit, 1, Unit)
    IN  IF n >= 0 THEN m * 10^n ELSE RoundDiv(m, 10^(0 - n))

Abs(x) == IF x < 0 THEN 0 - x ELSE x

(***************************************************************************)
(* elo_system.py: the rating arithmetic.                                   *)
(***************************************************************************)
\* 1 / (1 + 10 ** ((rating_b - rating_a) / 400))
calculate_expected_score(rating_a, rating_b) ==
    RoundDiv(Unit * Unit, Unit + Pow10(RoundDiv(rating_b - rating_a, 400)))

\* winner_expected, loser_expected of update_ratings.
expected_scores(w, l) ==
    <<calculate_expected_score(w, l), calculate_expected_score(l, w)>>

\* A plausible slip: the loser's expected score taken with the arguments in the
\* winner's order.
update_ratings_swapped(w, l) ==
    <<w + K_FACTOR * (Unit - calculate_expected_score(w, l)),
      l + K_FACTOR * (0 - calculate_expected_score(w, l))>>

\* A plausible slip: the loser's term added with the wrong sign.
update_ratings_loser_gains(w, l) ==
    <<w + K_FACTOR * (Unit - calculate_expected_score(w, l)),
      l + K_FACTOR * (calculate_expected_score(l, w) - 0)>>

\* <<new_winner_rating, new_loser_rating>>
update_ratings(w, l) ==
    LET winner_expected == calculate_expected_score(w, l)
        loser_expected == calculate_expected_score(l, w)
    IN  <<w + K_FACTOR * (Unit - winner_expected),
          l + K_FACTOR * (0 - loser_expected)>>

(***************************************************************************)
(* elo_system.py: the Ratings Store and record_matchup.                    *)
(***************************************************************************)
\* Two of the award categories of app.py and the MLBAM ids of three pitchers,
\* two of them rookies and so candidates of both categories.
Categories == {"al_cy_young", "al_rookie"}
PlayerIds == {1, 2, 3}
Pool(award_category) == IF award_category = "al_rookie" THEN {1, 2} ELSE PlayerIds
\* The browser sessions voting at the same time.
Sessions == {"s1", "s2"}

player_name(id) == <<"Skubal", "Crochet", "Brown">>[id]

Key(r) == <<r.award_category, r.player_id>>

\* The columns load_ratings keeps of a row.
Columns(r) ==
    [player_id |-> r.player_id, player_name |-> r.player_name,
     elo_rating |-> r.elo_rating, matches_played |-> r.matches_played]

\* A plausible slip: the select without its .eq("award_category", ...) filter.
load_ratings_unfiltered(award_category) == {Columns(r) : r \in elo_ratings}

\* select("*").eq("award_category", award_category), the needed columns only.
load_ratings(award_category) ==
    {Columns(r) : r \in {x \in elo_ratings : x.award_category = award_category}}

\* get_leaderboard, line 204: the rows it ranks are those load_ratings gives.
leaderboard_rows(award_category) == load_ratings(award_category)

\* The row update_player_rating sends.
Data(award_category, player_id, new_rating, matches_played) ==
    [award_category |-> award_category, player_id |-> player_id,
     player_name |-> player_name(player_id),
     elo_rating |-> new_rating, matches_played |-> matches_played]

\* A plausible slip: an insert, which leaves the row of the same key in place.
insert_only(table, data) == table \cup {data}

\* upsert(data, on_conflict="award_category,player_id")
upsert(table, data) == {r \in table : Key(r) # Key(data)} \cup {data}

player_row(df, player_id) == {r \in df : r.player_id = player_id}

\* A plausible slip: a new player started at 0 instead of DEFAULT_RATING.
get_or_create_player_rating_zero(df, player_id) ==
    IF Cardinality({r \in df : r.player_id = player_id}) > 0
    THEN (CHOOSE r \in {x \in df : x.player_id = player_id} : TRUE).elo_rating
    ELSE 0

get_or_create_player_rating(df, player_id) ==
    IF Cardinality(player_row(df, player_id)) > 0
    THEN (CHOOSE r \in player_row(df, player_id) : TRUE).elo_rating
    ELSE DEFAULT_RATING * Unit

\* winner_matches / loser_matches of record_matchup.
current_matches(df, player_id) ==
    IF Cardinality(player_row(df, player_id)) > 0
    THEN (CHOOSE r \in player_row(df, player_id) : TRUE).matches_played
    ELSE 0

\* A plausible slip: the loser's count taken from the winner's row.
loser_matches_of_winner(df, winner_id, loser_id) == current_matches(df, winner_id)

loser_matches_of(df, winner_id, loser_id) == current_matches(df, loser_id)

\* record_matchup, lines 167-184: what it computes from ratings_df before it
\* writes.
computed(df, winner_id, loser_id) ==
    LET new == update_ratings(get_or_create_player_rating(df, winner_id),
                              get_or_create_player_rating(df, loser_id))
    IN  [new_winner_rating |-> new[1], new_loser_rating |-> new[2],
         winner_matches |-> current_matches(df, winner_id),
         loser_matches |-> loser_matches_of(df, winner_id, loser_id)]

NoLocals ==
    [new_winner_rating |-> 0, new_loser_rating |-> 0,
     winner_matches |-> 0, loser_matches |-> 0]

\* The rows the table holds for a category (for the history variables and the
\* properties).
CategoryRows(award_category) ==
    {Columns(r) : r \in {x \in elo_ratings : x.award_category = award_category}}

NoCall == [award_category |-> "", winner_id |-> 0, loser_id |-> 0]

StoreIdle ==
    /\ elo_ratings = {}
    /\ pc = [s \in Sessions |-> "idle"]
    /\ call = [s \in Sessions |-> NoCall]
    /\ ratings_df = [s \in Sessions |-> {}]
    /\ locals = [s \in Sessions |-> NoLocals]
    /\ st_error = [s \in Sessions |-> <<>>]
    /\ ret = [s \in Sessions |-> <<>>]
    /\ calls = 0
    /\ failures = 0
    /\ load_failed = [s \in Sessions |-> FALSE]
    /\ upserts = [s \in Sessions |-> <<>>]
    /\ rows_at_call = [s \in Sessions |-> {}]
    /\ isolated = [s \in Sessions |-> TRUE]
    /\ recorded = [k \in Categories \X PlayerIds |-> 0]
    /\ last_writer = [k \in Categories \X PlayerIds |-> "none"]

EloIdle ==
    /\ winner_rating = 0
    /\ loser_rating = 0
    /\ expected = <<>>
    /\ new_ratings = <<>>
    /\ elo_pc = "unused"

BoardIdle ==
    /\ board_arg = ""
    /\ leaderboard = <<>>
    /\ board_error = <<>>
    /\ board_pc = "unused"

AppIdle ==
    /\ pitcher_data = <<>>
    /\ session_state = <<>>
    /\ tab = ""
    /\ app_pc = "unused"
    /\ st_warning = <<>>

\* record_matchup, lines 165-184: the call begins and load_ratings runs.  The
\* select either answers, or raises and load_ratings returns an empty DataFrame
\* after st.error; record_matchup then computes the new ratings and reads the
\* match counts from what it was given.
RecordMatchupLoad(s) ==
    /\ pc[s] \in {"idle", "returned"}
    /\ calls < MaxCalls
    /\ \E c \in Categories, w \in PlayerIds, l \in PlayerIds :
        /\ {w, l} \subseteq Pool(c)
        /\ w # l
        /\ call' = [call EXCEPT ![s] =
                       [award_category |-> c, winner_id |-> w, loser_id |-> l]]
        /\ rows_at_call' = [rows_at_call EXCEPT ![s] = CategoryRows(c)]
        /\ \/ /\ ratings_df' = [ratings_df EXCEPT ![s] = load_ratings(c)]
              /\ locals' = [locals EXCEPT ![s] = computed(ratings_df'[s], w, l)]
              /\ st_error' = [st_error EXCEPT ![s] = <<>>]
              /\ load_failed' = [load_failed EXCEPT ![s] = FALSE]
              /\ UNCHANGED failures
           \/ /\ failures < MaxFailures
              /\ failures' = failures + 1
              /\ ratings_df' = [ratings_df EXCEPT ![s] = {}]
              /\ locals' = [locals EXCEPT ![s] = computed(ratings_df'[s], w, l)]
              /\ st_error' = [st_error EXCEPT ![s] = <<"Error loading ratings">>]
              /\ load_failed' = [load_failed EXCEPT ![s] = TRUE]
    /\ pc' = [pc EXCEPT ![s] = "loaded"]
    /\ calls' = calls + 1
    /\ ret' = [ret EXCEPT ![s] = <<>>]
    /\ upserts' = [upserts EXCEPT ![s] = <<>>]
    /\ isolated' = [isolated EXCEPT ![s] = TRUE]
    /\ UNCHANGED <<elo_ratings, recorded, last_writer, eloVars, selVars,
                   boardVars, appVars>>

\* update_player_rating: the upsert either is stored, or raises and st.error
\* reports it; in both cases update_player_rating returns None.
UpdatePlayerRating(s, data) ==
    \/ /\ elo_ratings' = upsert(elo_ratings, data)
       /\ upserts' = [upserts EXCEPT ![s] = Append(@, "stored")]
       /\ last_writer' = [last_writer EXCEPT ![Key(data)] = s]
       /\ isolated' = [q \in Sessions |->
                          IF q # s /\ pc[q] # "idle" THEN FALSE ELSE isolated[q]]
       /\ UNCHANGED <<st_error, failures>>
    \/ /\ failures < MaxFailures
       /\ failures' = failures + 1
       /\ st_error' = [st_error EXCEPT ![s] = Append(@, "Error updating rating")]
       /\ upserts' = [upserts EXCEPT ![s] = Append(@, "failed")]
       /\ UNCHANGED <<elo_ratings, last_writer, isolated>>

\* record_matchup, line 187: the winner's row is written.
RecordMatchupWinner(s) ==
    /\ pc[s] = "loaded"
    /\ LET c == call[s] IN
          UpdatePlayerRating(s,
              Data(c.award_category, c.winner_id,
                   locals[s].new_winner_rating, locals[s].winner_matches + 1))
    /\ pc' = [pc EXCEPT ![s] = "wrote_winner"]
    /\ UNCHANGED <<call, ratings_df, locals, ret, calls, load_failed,
                   rows_at_call, recorded, eloVars, selVars, boardVars, appVars>>

\* record_matchup, lines 188-190: the loser's row is written and the new
\* ratings are returned.
RecordMatchupLoser(s) ==
    /\ pc[s] = "wrote_winner"
    /\ LET c == call[s] IN
        /\ UpdatePlayerRating(s,
              Data(c.award_category, c.loser_id,
                   locals[s].new_loser_rating, locals[s].loser_matches + 1))
        /\ ret' = [ret EXCEPT ![s] =
                      <<locals[s].new_winner_rating, locals[s].new_loser_rating>>]
        /\ recorded' = [recorded EXCEPT ![<<c.award_category, c.winner_id>>] = @ + 1,
                                        ![<<c.award_category, c.loser_id>>] = @ + 1]
    /\ pc' = [pc EXCEPT ![s] = "returned"]
    /\ UNCHANGED <<call, ratings_df, locals, calls, load_failed, rows_at_call,
                   eloVars, selVars, boardVars, appVars>>


(***************************************************************************)
(* app.py: select_random_matchup.                                          *)
(***************************************************************************)
\* The row of df at a position: its index and its identity.
Player(i) == [index |-> i, xMLBAMID |-> pool[i]]

\* A plausible slip: the draw returned without the identity test.
different_players_unchecked(player1, player2) == TRUE

\* A plausible slip: == written for !=.
different_players_inverted(player1, player2) == player1.xMLBAMID = player2.xMLBAMID

\* int(player1["xMLBAMID"]) != int(player2["xMLBAMID"])
different_players(player1, player2) == player1.xMLBAMID # player2.xMLBAMID

SelectIdle ==
    /\ pool = <<>>
    /\ attempt = 0
    /\ sample = <<>>
    /\ players = <<>>
    /\ sel_pc = "unused"

\* A plausible slip: too few rows treated like a failed selection.
SelectTooFew_raises ==
    /\ sel_pc = "running"
    /\ Len(pool) < 2
    /\ sel_pc' = "raised"
    /\ UNCHANGED <<pool, attempt, sample, players>>

\* lines 51-52: fewer than two rows, (None, None) is returned.
SelectTooFew ==
    /\ sel_pc = "running"
    /\ Len(pool) < 2
    /\ sel_pc' = "returned_none"
    /\ UNCHANGED <<pool, attempt, sample, players>>

\* A plausible slip: the retry loop without its bound (while True).
SelectSample_unbounded ==
    /\ sel_pc = "running"
    /\ Len(pool) >= 2
    /\ \E i \in 1 .. Len(pool), j \in 1 .. Len(pool) :
        /\ i # j
        /\ sample' = <<i, j>>
        /\ IF different_players(Player(i), Player(j))
           THEN /\ players' = <<Player(i), Player(j)>>
                /\ sel_pc' = "returned"
                /\ UNCHANGED attempt
           ELSE /\ attempt' = attempt + 1
                /\ UNCHANGED <<players, sel_pc>>
    /\ UNCHANGED pool

\* lines 56-63: one pass of the retry loop.  df.sample(n=2, replace=False)
\* draws two rows at different positions; the pair is returned when the
\* identities differ and the loop goes on otherwise.
SelectSample ==
    /\ sel_pc = "running"
    /\ Len(pool) >= 2
    /\ attempt < max_attempts
    /\ \E i \in 1 .. Len(pool), j \in 1 .. Len(pool) :
        /\ i # j
        /\ sample' = <<i, j>>
        /\ IF different_players(Player(i), Player(j))
           THEN /\ players' = <<Player(i), Player(j)>>
                /\ sel_pc' = "returned"
                /\ UNCHANGED attempt
           ELSE /\ attempt' = attempt + 1
                /\ UNCHANGED <<players, sel_pc>>
    /\ UNCHANGED pool

\* line 66: every pass was rejected, ValueError is raised.
SelectRaise ==
    /\ sel_pc = "running"
    /\ Len(pool) >= 2
    /\ attempt = max_attempts
    /\ sel_pc' = "raised"
    /\ UNCHANGED <<pool, attempt, sample, players>>

\* Every pool of at most MaxPool rows over the three identities, duplicates
\* included.
Pools == UNION {[1 .. n -> PlayerIds] : n \in 0 .. MaxPool}

InitSelect ==
    /\ StoreIdle
    /\ EloIdle
    /\ BoardIdle
    /\ AppIdle
    /\ pool \in Pools
    /\ attempt = 0
    /\ sample = <<>>
    /\ players = <<>>
    /\ sel_pc = "running"

NextSelect ==
    /\ \/ SelectTooFew
       \/ SelectSample
       \/ SelectRaise
    /\ UNCHANGED <<eloVars, storeVars, histVars, boardVars, appVars>>

SpecSelect == InitSelect /\ [][NextSelect]_vars

(***************************************************************************)
(* Spec: the sessions' record_matchup calls against the table.             *)
(***************************************************************************)
Init == StoreIdle /\ EloIdle /\ SelectIdle /\ BoardIdle /\ AppIdle

Next ==
    \E s \in Sessions :
        \/ RecordMatchupLoad(s)
        \/ RecordMatchupWinner(s)
        \/ RecordMatchupLoser(s)

Spec == Init /\ [][Next]_vars

(***************************************************************************)
(* Properties of record_matchup (checked under Spec).                      *)
(***************************************************************************)
RowsOf(df, player_id) == {r \in df : r.player_id = player_id}
HasRow(df, player_id) == RowsOf(df, player_id) # {}
\* The rating and match count a competitor has in a set of rows, the defaults
\* when the competitor has none.
RatingIn(df, player_id) ==
    IF HasRow(df, player_id)
    THEN (CHOOSE r \in RowsOf(df, player_id) : TRUE).elo_rating
    ELSE DEFAULT_RATING * Unit
MatchesIn(df, player_id) ==
    IF HasRow(df, player_id)
    THEN (CHOOSE r \in RowsOf(df, player_id) : TRUE).matches_played
    ELSE 0

Participants(s) == {call[s].winner_id, call[s].loser_id}
Successful(s) ==
    /\ pc[s] = "returned"
    /\ ~load_failed[s]
    /\ upserts[s] = <<"stored", "stored">>
Quiescent == \A s \in Sessions : pc[s] \in {"idle", "returned"}

\* The rows of a category after one record_matchup(winner, loser) applied to the
\* rows df, by the contract: the two participants' rows replaced, the others kept.
RowAfter(df, player_id, rating) ==
    [player_id |-> player_id, player_name |-> player_name(player_id),
     elo_rating |-> rating, matches_played |-> MatchesIn(df, player_id) + 1]
RowsAfter(df, winner_id, loser_id) ==
    LET new == update_ratings(RatingIn(df, winner_id), RatingIn(df, loser_id))
    IN  {r \in df : r.player_id \notin {winner_id, loser_id}}
            \cup {RowAfter(df, winner_id, new[1]), RowAfter(df, loser_id, new[2])}

\* C1: a successful record_matchup that ran in isolation leaves the category
\* with exactly the rows it read, except that the winner's and the loser's rows
\* hold matches_played read + 1 (0 + 1 if absent) and the pair update_ratings
\* gives for the ratings read; that pair is what the caller gets.
C1_IsolatedCallUpsertsBoth ==
    \A s \in Sessions :
        (Successful(s) /\ isolated[s]) =>
            LET after == RowsAfter(ratings_df[s], call[s].winner_id, call[s].loser_id)
            IN  /\ CategoryRows(call[s].award_category) = after
                /\ ret[s] = <<RatingIn(after, call[s].winner_id),
                              RatingIn(after, call[s].loser_id)>>

\* C1 happens: an isolated successful call whose winner already had a row, whose
\* loser had none, and which left a third competitor's row alone.
C1_Witness ==
    \E s \in Sessions :
        /\ Successful(s) /\ isolated[s]
        /\ HasRow(ratings_df[s], call[s].winner_id)
        /\ ~HasRow(ratings_df[s], call[s].loser_id)
        /\ \E r \in ratings_df[s] : r.player_id \notin Participants(s)

\* C2: whenever no call is under way, every competitor's stored matches_played
\* is the number of record_matchup calls that returned for that competitor in
\* that category (stated for the runs in which no store request failed).
C2_MatchesEqualRecorded ==
    (Quiescent /\ failures = 0) =>
        \A c \in Categories, x \in PlayerIds :
            MatchesIn(CategoryRows(c), x) = recorded[<<c, x>>]

\* C3: a call whose read failed issues no upsert, returns no pair of ratings,
\* and leaves the category's rows as they were.
C3_FailedReadAborts ==
    \A s \in Sessions :
        load_failed[s] =>
            /\ upserts[s] = <<>>
            /\ ret[s] = <<>>
            /\ isolated[s] => CategoryRows(call[s].award_category) = rows_at_call[s]

\* C4: a call in which an upsert failed does not return to its caller what a
\* fully successful call returns, the pair of new ratings.
C4_CallerToldOfFailedUpsert ==
    \A s \in Sessions :
        (pc[s] = "returned" /\ \E i \in 1 .. Len(upserts[s]) : upserts[s][i] = "failed")
            => ret[s] # <<locals[s].new_winner_rating, locals[s].new_loser_rating>>

\* Two calls of the same category that share competitor x, both read the same
\* rows and both stored both of their rows.
Raced(s, t, x) ==
    /\ s # t
    /\ Successful(s) /\ Successful(t)
    /\ call[s].award_category = call[t].award_category
    /\ x \in Participants(s) \cap Participants(t)
    /\ ratings_df[s] = ratings_df[t]

\* C5: when two such calls raced, the shared competitor's row is the one the
\* later writer computed from the rows both read: its matches_played is the
\* count read + 1, and the earlier writer's update is gone.
C5_LastWriteWins ==
    \A s \in Sessions, t \in Sessions, x \in PlayerIds :
        (Raced(s, t, x) /\ last_writer[<<call[s].award_category, x>>] = s) =>
            RowsOf(CategoryRows(call[s].award_category), x)
                = RowsOf(RowsAfter(ratings_df[s], call[s].winner_id, call[s].loser_id), x)

\* C5 happens: after a race the shared competitor's row differs, in rating and
\* in matches_played, from its row after either sequential order of the calls.
C5_Witness ==
    \E s \in Sessions, t \in Sessions, x \in PlayerIds :
        /\ Raced(s, t, x)
        /\ LET df == ratings_df[s]
               now == CategoryRows(call[s].award_category)
               s_t == RowsAfter(RowsAfter(df, call[s].winner_id, call[s].loser_id),
                                call[t].winner_id, call[t].loser_id)
               t_s == RowsAfter(RowsAfter(df, call[t].winner_id, call[t].loser_id),
                                call[s].winner_id, call[s].loser_id)
           IN  /\ RatingIn(now, x) \notin {RatingIn(s_t, x), RatingIn(t_s, x)}
               /\ MatchesIn(now, x) \notin {MatchesIn(s_t, x), MatchesIn(t_s, x)}

\* The rows of a category as the table holds them, and the step of a session
\* that writes.
TableRows(c) == {r \in elo_ratings : r.award_category = c}
Writes(s) == pc[s] \in {"loaded", "wrote_winner"} /\ pc'[s] # pc[s]

\* C6: a step changes the rows of a category only if it is a write of a call on
\* that category, to the key of that call's winner or loser; and a call, like
\* get_leaderboard in any state, reads rows of its own category only.
C6_CategoriesIndependent ==
    [][/\ \A d \in Categories :
            TableRows(d)' # TableRows(d) =>
                \E s \in Sessions :
                    /\ Writes(s)
                    /\ call[s].award_category = d
                    /\ \A r \in (TableRows(d)' \ TableRows(d)) \cup (TableRows(d) \ TableRows(d)') :
                            r.player_id \in Participants(s)
       /\ \A s \in Sessions :
            (pc[s] # "loaded" /\ pc'[s] = "loaded") =>
                ratings_df'[s] \subseteq
                    {Columns(r) : r \in TableRows(call'[s].award_category)}
       /\ \A d \in Categories :
            leaderboard_rows(d)' \subseteq {Columns(r) : r \in TableRows(d)'}
      ]_vars

\* C6 happens: a competitor has a row in both categories, the two rows differ,
\* and a call on one of the categories has returned.
C6_Witness ==
    \E s \in Sessions, x \in PlayerIds :
        /\ Successful(s)
        /\ x \in Participants(s)
        /\ HasRow(CategoryRows("al_cy_young"), x)
        /\ HasRow(CategoryRows("al_rookie"), x)
        /\ RatingIn(CategoryRows("al_cy_young"), x) # RatingIn(CategoryRows("al_rookie"), x)

\* C7: a call treats a competitor as new (matches_played 0, rating 1500) only
\* if the competitor has no row in the category when the call reads.
C7_DefaultOnlyWithoutRow ==
    \A s \in Sessions :
        pc[s] # "idle" =>
            /\ locals[s].winner_matches = 0 => ~HasRow(rows_at_call[s], call[s].winner_id)
            /\ locals[s].loser_matches = 0 => ~HasRow(rows_at_call[s], call[s].loser_id)

(***************************************************************************)
(* SpecElo: update_ratings applied to every pair of ratings of the grid.   *)
(***************************************************************************)
GridRatings == {DEFAULT_RATING * Unit + i * GridStep : i \in (0 - MaxGrid) .. MaxGrid}

InitElo ==
    /\ StoreIdle
    /\ SelectIdle
    /\ BoardIdle
    /\ AppIdle
    /\ winner_rating \in GridRatings
    /\ loser_rating \in GridRatings
    /\ expected = <<>>
    /\ new_ratings = <<>>
    /\ elo_pc = "ready"

CallUpdateRatings ==
    /\ elo_pc = "ready"
    /\ expected' = expected_scores(winner_rating, loser_rating)
    /\ new_ratings' = update_ratings(winner_rating, loser_rating)
    /\ elo_pc' = "returned"
    /\ UNCHANGED <<winner_rating, loser_rating, storeVars, histVars, selVars,
                   boardVars, appVars>>

NextElo == CallUpdateRatings

SpecElo == InitElo /\ [][NextElo]_vars

(***************************************************************************)
(* Properties of update_ratings (checked under SpecElo).                   *)
(***************************************************************************)
Returned == elo_pc = "returned"
WinnerChange == new_ratings[1] - winner_rating
LoserChange == new_ratings[2] - loser_rating

HasDuplicates ==
    \E i \in 1 .. Len(pool), j \in 1 .. Len(pool) : i # j /\ pool[i] = pool[j]

\* C10: a returned pair has two different identities, and its two players are
\* the rows of the pool at two different positions.
C10_PairDistinct ==
    sel_pc = "returned" =>
        /\ players[1].xMLBAMID # players[2].xMLBAMID
        /\ players[1].index # players[2].index
        /\ \A k \in 1 .. 2 :
              /\ players[k].index \in 1 .. Len(pool)
              /\ pool[players[k].index] = players[k].xMLBAMID

\* C10 happens: a pair returned from a pool with duplicate identities, after a
\* draw of two rows with the same identity was rejected.
C10_Witness ==
    /\ sel_pc = "returned"
    /\ HasDuplicates
    /\ attempt > 0

\* C11: on a pool of at least two rows with pairwise different identities no
\* draw is ever rejected and nothing but a pair is returned: the first draw
\* returns, and ValueError is never raised.  From a pool of exactly two such
\* rows the pair returned is the two rows, in either order.
C11_DistinctPoolFirstDraw ==
    (Len(pool) >= 2 /\ ~HasDuplicates) =>
        /\ attempt = 0
        /\ sel_pc \in {"running", "returned"}
        /\ sel_pc = "running" => sample = <<>>
        /\ (sel_pc = "returned" /\ Len(pool) = 2) =>
              {players[1].xMLBAMID, players[2].xMLBAMID} = {pool[1], pool[2]}

\* C11 happens: the two rows of a pool of two different competitors returned,
\* the second row first.
C11_Witness ==
    /\ Len(pool) = 2
    /\ ~HasDuplicates
    /\ sel_pc = "returned"
    /\ players[1].index = 2

\* A step that draws a sample.
Draws == sel_pc = "running" /\ (attempt' # attempt \/ sel_pc' = "returned")

\* C14: select_random_matchup ends within max_attempts draws.  The rejected
\* draws never exceed max_attempts and while it runs a step is possible; a draw
\* of two different identities returns at once and a draw of two identical ones
\* is rejected; ValueError is raised exactly after max_attempts rejected draws,
\* and only on a pool with duplicate identities.
C14_EndsWithinMaxAttempts ==
    /\ [](/\ attempt <= max_attempts
          /\ sel_pc = "running" => ENABLED NextSelect
          /\ sel_pc = "returned" =>
                attempt < max_attempts /\ pool[sample[1]] # pool[sample[2]]
          /\ sel_pc = "raised" => attempt = max_attempts /\ HasDuplicates)
    /\ [][/\ Draws =>
                IF pool[sample'[1]] # pool[sample'[2]]
                THEN sel_pc' = "returned" /\ attempt' = attempt
                ELSE sel_pc' = "running" /\ attempt' = attempt + 1
          /\ sel_pc' = "raised" => (sel_pc = "raised" \/ attempt = max_attempts)
          /\ (sel_pc = "running" /\ Len(pool) >= 2 /\ attempt = max_attempts)
                => sel_pc' = "raised"
         ]_vars

\* C14 happens: ValueError raised after max_attempts rejected draws.
C14_Witness ==
    /\ sel_pc = "raised"
    /\ attempt = max_attempts
    /\ HasDuplicates

(***************************************************************************)
(* SpecSeq: record_matchup called one call at a time with a store that     *)
(* answers, and get_leaderboard reading the table in between.              *)
(***************************************************************************)
\* The orders in which the store can hand over a set of rows (the select of
\* load_ratings names no order).
Orders(rows) ==
    {f \in [1 .. Cardinality(rows) -> rows] :
        \A i, j \in 1 .. Cardinality(rows) : i # j => f[i] # f[j]}

\* One row put in its place in a frame sorted by elo_rating, descending: after
\* the rows whose rating is at least its own.
InsertDescending(sorted, row) ==
    LET k == Cardinality({i \in 1 .. Len(sorted) :
                             sorted[i].elo_rating >= row.elo_rating})
    IN  SubSeq(sorted, 1, k) \o <<row>> \o SubSeq(sorted, k + 1, Len(sorted))

\* ratings_df.sort_values("elo_rating", ascending=False)
RECURSIVE sort_values(_)
sort_values(df) ==
    IF df = <<>>
    THEN <<>>
    ELSE InsertDescending(sort_values(SubSeq(df, 1, Len(df) - 1)), df[Len(df)])

\* get_leaderboard, lines 206-211, from the frame load_ratings returned (top_n
\* is None).
get_leaderboard(df) == IF df = <<>> THEN df ELSE sort_values(df)

\* get_leaderboard(award_category): load_ratings answers with the rows of the
\* category in some order, or its select raises and it hands over an empty
\* frame after st.error.
GetLeaderboard ==
    /\ board_pc \in {"ready", "returned"}
    /\ \E c \in Categories :
        /\ board_arg' = c
        /\ \/ /\ \E response \in Orders(load_ratings(c)) :
                    leaderboard' = get_leaderboard(response)
              /\ board_error' = <<>>
           \/ /\ leaderboard' = get_leaderboard(<<>>)
              /\ board_error' = <<"Error loading ratings">>
    /\ board_pc' = "returned"
    /\ UNCHANGED <<eloVars, storeVars, histVars, selVars, appVars>>

\* record_matchup run from its call to its return with no other call in
\* progress and every request to the store answered: the read, the arithmetic
\* and the two upserts.
record_matchup(award_category, winner_id, loser_id) ==
    /\ LET v == computed(load_ratings(award_category), winner_id, loser_id) IN
        /\ elo_ratings' =
              upsert(upsert(elo_ratings,
                            Data(award_category, winner_id,
                                 v.new_winner_rating, v.winner_matches + 1)),
                     Data(award_category, loser_id,
                          v.new_loser_rating, v.loser_matches + 1))
        /\ ret' = [ret EXCEPT !["s1"] = <<v.new_winner_rating, v.new_loser_rating>>]
    /\ call' = [call EXCEPT !["s1"] =
                   [award_category |-> award_category,
                    winner_id |-> winner_id, loser_id |-> loser_id]]
    /\ recorded' = [recorded EXCEPT ![<<award_category, winner_id>>] = @ + 1,
                                    ![<<award_category, loser_id>>] = @ + 1]
    /\ calls' = calls + 1
    /\ UNCHANGED <<pc, ratings_df, locals, failures, load_failed, upserts,
                   rows_at_call, isolated, last_writer>>

RecordMatchupAlone ==
    /\ calls < MaxSeq
    /\ \E c \in Categories, w \in PlayerIds, l \in PlayerIds :
        /\ {w, l} \subseteq Pool(c)
        /\ w # l
        /\ record_matchup(c, w, l)
    /\ UNCHANGED <<st_error, eloVars, selVars, boardVars, appVars>>

InitSeq ==
    /\ StoreIdle
    /\ EloIdle
    /\ SelectIdle
    /\ AppIdle
    /\ board_arg = ""
    /\ leaderboard = <<>>
    /\ board_error = <<>>
    /\ board_pc = "ready"

NextSeq == RecordMatchupAlone \/ GetLeaderboard

SpecSeq == InitSeq /\ [][NextSeq]_vars

(***************************************************************************)
(* SpecApp: one browser session running the script of app.py.  Each        *)
(* display_award_tab call renders one award tab; st.rerun() and the end of *)
(* the call both leave the session ready for the next call.                *)
(***************************************************************************)
matchup_key(award_category) == <<"current_matchup", award_category>>
vote_key(award_category) == <<"vote_submitted", award_category>>

\* st.session_state[key] = value
Put(state, key, value) ==
    [k \in DOMAIN state \cup {key} |-> IF k = key THEN value ELSE state[k]]

\* lines 176-179: the two keys of the category are created when missing; None
\* is the empty tuple.
Initialized(state, award_category) ==
    LET with_matchup == IF matchup_key(award_category) \in DOMAIN state
                        THEN state
                        ELSE Put(state, matchup_key(award_category), <<>>)
    IN  IF vote_key(award_category) \in DOMAIN with_matchup
        THEN with_matchup
        ELSE Put(with_matchup, vote_key(award_category), FALSE)

\* The frames get_pitcher_data can hold for a category: rows of its candidates,
\* duplicates included.  The frame is cached (st.cache_data), every call of a
\* behaviour that succeeds hands over the same rows.  The rows are listed by
\* identity: another order of the same rows only renumbers the positions.
PitcherData(award_category) ==
    {df \in UNION {[1 .. n -> Pool(award_category)] : n \in 0 .. MaxData} :
        \A i \in 1 .. Len(df) - 1 : df[i] <= df[i + 1]}

\* The locals of select_random_matchup are gone once display_award_tab is left.
SelectLeft ==
    /\ pool' = <<>>
    /\ attempt' = 0
    /\ sample' = <<>>
    /\ players' = <<>>
    /\ sel_pc' = "unused"

\* display_award_tab is left: by its last line, or by st.rerun() ending the
\* script run.
TabLeft ==
    /\ tab' = ""
    /\ app_pc' = "idle"
    /\ SelectLeft

\* display_award_tab is about to return after a message.
Returning ==
    /\ app_pc' = "returning"
    /\ UNCHANGED <<tab, selVars>>

\* display_award_tab, lines 170-195: the keys are initialised and the data is
\* loaded; the call ends on a failed load and on an empty frame, and it calls
\* select_random_matchup when there is no current matchup or a vote was just
\* submitted.
DisplayAwardTab(award_category) ==
    /\ app_pc = "idle"
    /\ session_state' = Initialized(session_state, award_category)
    /\ tab' = award_category
    /\ \/ /\ st_error' = [st_error EXCEPT !["s1"] = <<"Error loading data">>]
          /\ app_pc' = "returning"
          /\ UNCHANGED <<st_warning, selVars>>
       \/ LET df == pitcher_data[award_category] IN
            /\ UNCHANGED st_error
            /\ IF df = <<>>
               THEN /\ st_warning' = <<"No player data available for this category.">>
                    /\ app_pc' = "returning"
                    /\ UNCHANGED selVars
               ELSE /\ UNCHANGED st_warning
                    /\ pool' = df
                    /\ attempt' = 0
                    /\ sample' = <<>>
                    /\ players' = <<>>
                    /\ IF \/ session_state'[matchup_key(award_category)] = <<>>
                          \/ session_state'[vote_key(award_category)]
                       THEN sel_pc' = "running" /\ app_pc' = "select"
                       ELSE sel_pc' = "unused" /\ app_pc' = "show"
    /\ UNCHANGED <<elo_ratings, pc, call, ratings_df, locals, ret, calls, failures>>
    /\ UNCHANGED <<pitcher_data, eloVars, histVars, boardVars>>

\* select_random_matchup runs inside display_award_tab (line 195).
SelectRandomMatchup ==
    /\ app_pc = "select"
    /\ \/ SelectTooFew
       \/ SelectSample
       \/ SelectRaise
    /\ UNCHANGED <<eloVars, storeVars, histVars, boardVars, appVars>>

\* lines 196-198: (None, None) came back.
NotEnoughPlayers ==
    /\ app_pc = "select"
    /\ sel_pc = "returned_none"
    /\ st_warning' = Append(st_warning, "Not enough players for a matchup.")
    /\ Returning
    /\ UNCHANGED <<pitcher_data, session_state, eloVars, storeVars, histVars,
                   boardVars>>

\* lines 199-200: the pair that came back becomes the current matchup.
StoreMatchup ==
    /\ app_pc = "select"
    /\ sel_pc = "returned"
    /\ session_state' = Put(Put(session_state, matchup_key(tab), players),
                            vote_key(tab), FALSE)
    /\ app_pc' = "show_new"
    /\ UNCHANGED <<pitcher_data, tab, st_warning, selVars, eloVars, storeVars,
                   histVars, boardVars>>

\* line 66 raised: nothing in display_award_tab or main catches ValueError, the
\* script run ends with the exception shown.
SelectionFailed ==
    /\ app_pc = "select"
    /\ sel_pc = "raised"
    /\ st_error' = [st_error EXCEPT !["s1"] = <<"ValueError">>]
    /\ Returning
    /\ UNCHANGED <<elo_ratings, pc, call, ratings_df, locals, ret, calls, failures>>
    /\ UNCHANGED <<pitcher_data, session_state, st_warning, eloVars, histVars,
                   boardVars>>

\* A plausible slip: every category's current matchup cleared after a vote.
handle_vote_clears_all(award_category, winner, loser) ==
    /\ record_matchup(award_category, winner.xMLBAMID, loser.xMLBAMID)
    /\ session_state' =
          [k \in DOMAIN session_state |->
              IF k[1] = "current_matchup" THEN <<>>
              ELSE IF k = vote_key(award_category) THEN TRUE
              ELSE session_state[k]]
    /\ TabLeft

\* handle_vote, lines 135-159: the matchup is recorded, the category's current
\* matchup is cleared and its vote flag set, and the script reruns.
handle_vote(award_category, winner, loser) ==
    /\ record_matchup(award_category, winner.xMLBAMID, loser.xMLBAMID)
    /\ session_state' = Put(Put(session_state, matchup_key(award_category), <<>>),
                            vote_key(award_category), TRUE)
    /\ TabLeft

\* display_award_tab, lines 202-233: the current matchup is read and checked,
\* the two cards are shown, and a vote is handled.  A button is down only in
\* the run its click started, so only on a matchup that was on screen before
\* this run.  Without a vote the leaderboard is shown and the call returns.
ShowMatchup ==
    /\ app_pc \in {"show", "show_new"}
    /\ LET player1 == session_state[matchup_key(tab)][1]
           player2 == session_state[matchup_key(tab)][2]
       IN  IF player1.xMLBAMID = player2.xMLBAMID
           THEN /\ session_state' = Put(session_state, matchup_key(tab), <<>>)
                /\ TabLeft
                /\ UNCHANGED <<storeVars, histVars>>
           ELSE \/ /\ app_pc = "show"
                   /\ calls < MaxVotes
                   /\ handle_vote(tab, player1, player2)
                   /\ UNCHANGED st_error
                \/ /\ app_pc = "show"
                   /\ calls < MaxVotes
                   /\ handle_vote(tab, player2, player1)
                   /\ UNCHANGED st_error
                \/ /\ TabLeft
                   /\ UNCHANGED <<session_state, storeVars, histVars>>
    /\ UNCHANGED <<pitcher_data, st_warning, eloVars, boardVars>>

\* lines 187, 191, 198: return after the message; an uncaught exception leaves
\* the call the same way.  The messages belong to the call that is left.
DisplayAwardTabReturns ==
    /\ app_pc = "returning"
    /\ TabLeft
    /\ st_warning' = <<>>
    /\ st_error' = [st_error EXCEPT !["s1"] = <<>>]
    /\ UNCHANGED <<elo_ratings, pc, call, ratings_df, locals, ret, calls, failures>>
    /\ UNCHANGED <<pitcher_data, session_state, eloVars, histVars, boardVars>>

InitApp ==
    /\ StoreIdle
    /\ EloIdle
    /\ BoardIdle
    /\ SelectIdle
    /\ pitcher_data \in [Categories -> UNION {PitcherData(c) : c \in Categories}]
    /\ \A c \in Categories : pitcher_data[c] \in PitcherData(c)
    /\ session_state = [k \in {} |-> <<>>]
    /\ tab = ""
    /\ app_pc = "idle"
    /\ st_warning = <<>>

NextApp ==
    \/ \E c \in Categories : DisplayAwardTab(c)
    \/ SelectRandomMatchup
    \/ NotEnoughPlayers
    \/ StoreMatchup
    \/ SelectionFailed
    \/ ShowMatchup
    \/ DisplayAwardTabReturns

SpecApp == InitApp /\ [][NextApp]_vars

(***************************************************************************)
(* Properties of get_leaderboard and of calls made one at a time (checked  *)
(* under SpecSeq).                                                         *)
(***************************************************************************)
\* A step in which get_leaderboard returns something new.
LeaderboardReturns == boardVars' # boardVars

\* C13: what get_leaderboard(category) returns holds exactly the rows stored
\* for the category, each once, with elo_rating non-increasing from first to
\* last (so the empty sequence for a category without rows).
C13_LeaderboardIsStoredRows ==
    [][LeaderboardReturns =>
          /\ Len(leaderboard') = Cardinality(CategoryRows(board_arg'))
          /\ {leaderboard'[i] : i \in 1 .. Len(leaderboard')} = CategoryRows(board_arg')
          /\ \A i \in 1 .. Len(leaderboard') - 1 :
                leaderboard'[i].elo_rating >= leaderboard'[i + 1].elo_rating
      ]_vars

RECURSIVE SumRatings(_)
SumRatings(rows) ==
    IF rows = {}
    THEN 0
    ELSE LET r == CHOOSE x \in rows : TRUE
         IN  r.elo_rating + SumRatings(rows \ {r})

\* record_matchup calls returned in a category: each call counts for two players.
CallsIn(c) == (recorded[<<c, 1>>] + recorded[<<c, 2>>] + recorded[<<c, 3>>]) \div 2

\* What the ratings of a category sum to beyond DEFAULT_RATING per row.
Excess(c) ==
    SumRatings(TableRows(c)) - DEFAULT_RATING * Unit * Cardinality(TableRows(c))

Selecting == app_pc \in {"select", "returning"} /\ sel_pc # "unused"

\* C12: on a frame of fewer than two rows select_random_matchup draws no
\* sample, returns no pair (it returns (None, None)) and does not raise; the
\* caller then warns "Not enough players for a matchup.", reports no error,
\* stores no matchup, records nothing in the table and is ready for the next
\* call.
C12_TooFewIsWarning ==
    /\ [](/\ (Selecting /\ Len(pool) < 2) =>
                /\ sample = <<>>
                /\ players = <<>>
                /\ attempt = 0
                /\ sel_pc \in {"running", "returned_none"}
          /\ sel_pc = "returned_none" =>
                /\ Len(pool) < 2
                /\ session_state[matchup_key(tab)] = <<>>
                /\ st_error["s1"] = <<>>
                /\ app_pc = "returning" =>
                      st_warning = <<"Not enough players for a matchup.">>)
    /\ [][sel_pc = "returned_none" =>
             /\ UNCHANGED <<elo_ratings, calls, call, session_state>>
             /\ app_pc' = IF app_pc = "select" THEN "returning" ELSE "idle"
         ]_vars

\* C12 happens: display_award_tab has warned after (None, None) came back for
\* a frame of one row.
C12_Witness ==
    /\ app_pc = "returning"
    /\ sel_pc = "returned_none"
    /\ Len(pool) = 1
    /\ st_warning = <<"Not enough players for a matchup.">>

\* The identities of a stored matchup.
MatchupIds(matchup) == {matchup[1].xMLBAMID, matchup[2].xMLBAMID}

\* The current matchup of a category, None (the empty tuple) while its key is
\* missing.
CurrentMatchup(state, c) ==
    IF matchup_key(c) \in DOMAIN state THEN state[matchup_key(c)] ELSE <<>>

\* C16: a stored matchup never holds two players of one identity, so no vote
\* is handled on one; every record_matchup call of the flow is made for the
\* category of the tab, with winner_id # loser_id, both the identities of the
\* current matchup of that category; the vote clears that category's current
\* matchup, sets its flag and leaves every other key as it was; and a current
\* matchup is cleared by nothing but a vote of its category.
C16_VoteOnCurrentMatchup ==
    /\ [](\A c \in Categories :
             CurrentMatchup(session_state, c) # <<>> =>
                Cardinality(MatchupIds(CurrentMatchup(session_state, c))) = 2)
    /\ [][/\ calls' # calls =>
                LET v == call'["s1"]
                    c == v.award_category
                    matchup == CurrentMatchup(session_state, c)
                IN  /\ c = tab
                    /\ v.winner_id # v.loser_id
                    /\ matchup # <<>>
                    /\ {v.winner_id, v.loser_id} = MatchupIds(matchup)
                    /\ session_state'[matchup_key(c)] = <<>>
                    /\ session_state'[vote_key(c)] = TRUE
                    /\ DOMAIN session_state' = DOMAIN session_state
                    /\ \A k \in DOMAIN session_state \ {matchup_key(c), vote_key(c)} :
                          session_state'[k] = session_state[k]
          /\ \A c \in Categories :
                (/\ CurrentMatchup(session_state, c) # <<>>
                 /\ CurrentMatchup(session_state', c) = <<>>)
                    => (calls' # calls /\ call'["s1"].award_category = c)
         ]_vars

\* C16 happens: a vote was handled in one category while the other category
\* keeps its current matchup.
C16_Witness ==
    /\ calls >= 1
    /\ app_pc = "idle"
    /\ LET c == call["s1"].award_category IN
        /\ CurrentMatchup(session_state, c) = <<>>
        /\ session_state[vote_key(c)] = TRUE
        /\ \E d \in Categories \ {c} : CurrentMatchup(session_state, d) # <<>>

====
